---------------------------- MODULE Spec2Model ----------------------------
(***************************************************************************)
(* Model of Sources/ImplicitsCUtils/include/performance_measuring.h:       *)
(* the subject registry, the subject enum and the three generic            *)
(* dispatchers RecordMeasurement, GetAccumulatedMetricFor, GetCounterFor.  *)
(* The per-subject functions the header only declares                      *)
(* (RecordMeasurementFor##SUBJECT, GetAccumulatedMetricFor##SUBJECT,       *)
(* GetCounterFor##SUBJECT) are modelled from their specified contract.     *)
(***************************************************************************)
EXTENDS Integers, Sequences, FiniteSets, TLC

(* ------------------------------ bounds -------------------------------- *)

\* uint64_t is scaled down to WordBits bits; every word is in 0..Modulus-1.
WordBits == 4

\* Number of RecordMeasurement calls explored in the sequential model.
MaxCalls == 2

\* Number of RecordMeasurement calls each thread makes in the threaded model.
MaxThreadCalls == 1

RECURSIVE Pow2(_)
Pow2(n) == IF n = 0 THEN 1 ELSE 2 * Pow2(n - 1)

Modulus == Pow2(WordBits)

UINT64_MAX == Modulus - 1

Min(a, b) == IF a < b THEN a ELSE b

(* ------------------------ the subject registry ------------------------ *)

\* SUBJECT_ENUMERATION(SUBJECT): the ordered list the three X-macros expand.
SUBJECT_ENUMERATION ==
    << "Control",
       "ImplicitsWithUnsafeKeys",
       "RawStoreOnRootScopeCreation",
       "RawStoreOnRootScopeEnd",
       "RawStoreSubscriptSet",
       "RawStoreSubscriptGet",
       "RawStoreCurrent",
       "RawStoreFromTSD",
       "TypedStoreSubscriptGet",
       "TypedStoreSetValue" >>

SubjectNames == { SUBJECT_ENUMERATION[i] : i \in 1..Len(SUBJECT_ENUMERATION) }

\* Mutant: the first enumerator is given the value 1 instead of 0.
ENUM_MEMBER_FromOne(i) == i

\* ENUM_MEMBER(s): the i-th enumerator of a C enum without initialisers has
\* the value i - 1 (the first is 0, each next one more).
ENUM_MEMBER(i) == i - 1

\* InternalImplicitsMeasurementSubject##name, the enumerator's value.
InternalImplicitsMeasurementSubject(name) ==
    ENUM_MEMBER(CHOOSE i \in 1..Len(SUBJECT_ENUMERATION) :
                    SUBJECT_ENUMERATION[i] = name)

\* The case labels the switch statements are generated with.
CaseLabels == { InternalImplicitsMeasurementSubject(n) : n \in SubjectNames }

\* The position in the registry of the case a switch on `subject` selects.
CaseIndex(subject) ==
    CHOOSE i \in 1..Len(SUBJECT_ENUMERATION) :
        InternalImplicitsMeasurementSubject(SUBJECT_ENUMERATION[i]) = subject

(* ----------------------- per-subject functions ------------------------ *)

VARIABLES
    st,        \* per-subject aggregate state: name -> [total, count]
    arith,     \* the provider's overflow arithmetic: "wrapping" | "saturating"
    hist,      \* history: name -> [sum, num] of the completed valid records
    ncalls,    \* RecordMeasurement calls made so far (sequential model)
    last,      \* the last dispatcher call: [op, subject, ns, ret]
    invoked,   \* the per-subject functions the last dispatcher call invoked
    reread,    \* "same"/"differs": the last call repeated the read before it
    atomic,    \* threaded model: whether the per-subject recorder is atomic
    pc,        \* threaded model: each thread's position
    pending,   \* threaded model: the per-subject calls a thread still makes
    reg,       \* threaded model: the word a thread has loaded
    tcalls     \* threaded model: calls each thread has made

vars == << st, arith, hist, ncalls, last, invoked, reread,
           atomic, pc, pending, reg, tcalls >>

seqVars == << ncalls, last, invoked, reread >>

thrVars == << atomic, pc, pending, reg, tcalls >>

\* uint64_t addition as the provider implements it.
Add64(a, b) ==
    IF arith = "wrapping" THEN (a + b) % Modulus ELSE Min(a + b, UINT64_MAX)

\* void RecordMeasurementFor##SUBJECT(uint64_t ns)
RecordMeasurementForSUBJECT(s, name, ns) ==
    [s EXCEPT ![name] = [total |-> Add64(@.total, ns),
                         count |-> Add64(@.count, 1)]]

\* uint64_t GetAccumulatedMetricFor##SUBJECT(void)
GetAccumulatedMetricForSUBJECT(s, name) == s[name].total

\* uint64_t GetCounterFor##SUBJECT(void)
GetCounterForSUBJECT(s, name) == s[name].count

\* One call of a per-subject function, as a dispatcher makes it.
PerSubjectCall(fn, name, args) == [fn |-> fn, subject |-> name, args |-> args]

\* The state after one per-subject call.
CallEffect(s, c) ==
    IF c.fn = "RecordMeasurementFor"
    THEN RecordMeasurementForSUBJECT(s, c.subject, c.args[1])
    ELSE s

\* The value one per-subject call returns: <<>> for void, <<v>> for a word.
CallReturn(s, c) ==
    CASE c.fn = "GetAccumulatedMetricFor" ->
             << GetAccumulatedMetricForSUBJECT(s, c.subject) >>
      [] c.fn = "GetCounterFor" -> << GetCounterForSUBJECT(s, c.subject) >>
      [] OTHER -> << >>

(* --------------------------- the dispatchers -------------------------- *)

\* A dispatcher's control flow: the per-subject calls it makes, in order, and
\* what it returns: "void", "call" (the value of its last call) or "zero".
Flow(calls, returns) == [calls |-> calls, returns |-> returns]

\* Mutant: CASE_RECORD_MEASUREMENT without its break; control falls through
\* every later case down to default.
RecordMeasurementNoBreak(subject, ns) ==
    IF subject \in CaseLabels
    THEN Flow([k \in 1..(Len(SUBJECT_ENUMERATION) - CaseIndex(subject) + 1) |->
                 PerSubjectCall("RecordMeasurementFor",
                     SUBJECT_ENUMERATION[CaseIndex(subject) + k - 1], << ns >>)],
              "void")
    ELSE Flow(<< >>, "void")

\* Mutant: the duration is passed on through a narrower integer.
RecordMeasurementNarrow(subject, ns) ==
    IF subject \in CaseLabels
    THEN Flow(<< PerSubjectCall("RecordMeasurementFor",
                     SUBJECT_ENUMERATION[CaseIndex(subject)],
                     << ns % Pow2(WordBits - 1) >>) >>, "void")
    ELSE Flow(<< >>, "void")

\* Mutant: the default branch forwards to the first subject's recorder.
RecordMeasurementDefaultFirst(subject, ns) ==
    IF subject \in CaseLabels
    THEN Flow(<< PerSubjectCall("RecordMeasurementFor",
                     SUBJECT_ENUMERATION[CaseIndex(subject)], << ns >>) >>,
              "void")
    ELSE Flow(<< PerSubjectCall("RecordMeasurementFor",
                     SUBJECT_ENUMERATION[1], << ns >>) >>, "void")

\* inline static void RecordMeasurement(subject, ns):
\*   case InternalImplicitsMeasurementSubject##SUBJECT:
\*     RecordMeasurementFor##SUBJECT(ns); break;   default: break;
RecordMeasurement(subject, ns) ==
    IF subject \in CaseLabels
    THEN Flow(<< PerSubjectCall("RecordMeasurementFor",
                     SUBJECT_ENUMERATION[CaseIndex(subject)], << ns >>) >>,
              "void")
    ELSE Flow(<< >>, "void")

\* Mutant: the case body records a sample before it reads.
GetAccumulatedMetricForRecording(subject) ==
    IF subject \in CaseLabels
    THEN Flow(<< PerSubjectCall("RecordMeasurementFor",
                     SUBJECT_ENUMERATION[CaseIndex(subject)], << 1 >>),
                 PerSubjectCall("GetAccumulatedMetricFor",
                     SUBJECT_ENUMERATION[CaseIndex(subject)], << >>) >>,
              "call")
    ELSE Flow(<< >>, "zero")

\* inline static uint64_t GetAccumulatedMetricFor(subject):
\*   case InternalImplicitsMeasurementSubject##SUBJECT:
\*     return GetAccumulatedMetricFor##SUBJECT();   default: return 0;
GetAccumulatedMetricFor(subject) ==
    IF subject \in CaseLabels
    THEN Flow(<< PerSubjectCall("GetAccumulatedMetricFor",
                     SUBJECT_ENUMERATION[CaseIndex(subject)], << >>) >>,
              "call")
    ELSE Flow(<< >>, "zero")

\* Mutant: the case body returns the accumulated metric instead of the counter.
GetCounterForWrongReader(subject) ==
    IF subject \in CaseLabels
    THEN Flow(<< PerSubjectCall("GetAccumulatedMetricFor",
                     SUBJECT_ENUMERATION[CaseIndex(subject)], << >>) >>,
              "call")
    ELSE Flow(<< >>, "zero")

\* inline static uint64_t GetCounterFor(subject):
\*   case InternalImplicitsMeasurementSubject##SUBJECT:
\*     return GetCounterFor##SUBJECT();   default: return 0;
GetCounterFor(subject) ==
    IF subject \in CaseLabels
    THEN Flow(<< PerSubjectCall("GetCounterFor",
                     SUBJECT_ENUMERATION[CaseIndex(subject)], << >>) >>,
              "call")
    ELSE Flow(<< >>, "zero")

\* The state after a dispatcher's per-subject calls ran one after the other.
RECURSIVE RunCalls(_, _)
RunCalls(s, calls) ==
    IF calls = << >> THEN s
    ELSE RunCalls(CallEffect(s, Head(calls)), Tail(calls))

\* The value a dispatcher returns, its calls having run from state s.
RECURSIVE RunReturn(_, _)
RunReturn(s, flow) ==
    CASE flow.returns = "void" -> << >>
      [] flow.returns = "zero" -> << 0 >>
      [] OTHER ->
           IF Len(flow.calls) = 1 THEN CallReturn(s, flow.calls[1])
           ELSE RunReturn(CallEffect(s, Head(flow.calls)),
                          Flow(Tail(flow.calls), flow.returns))

\* The subject values the registry gives a name: its positions, from 0.
RegistryOrdinals == 0..(Len(SUBJECT_ENUMERATION) - 1)

RegistryName(subject) == SUBJECT_ENUMERATION[subject + 1]

\* The history with the requested record (subject, ns) added: the exact sum
\* and number of the durations recorded for each named subject.
Requested(h, subject, ns) ==
    IF subject \in RegistryOrdinals
    THEN [h EXCEPT ![RegistryName(subject)] =
             [sum |-> @.sum + ns, num |-> @.num + 1]]
    ELSE h

\* The word a provider holds after folding the exact value v into 0.
Folded(v) == IF arith = "wrapping" THEN v % Modulus ELSE Min(v, UINT64_MAX)

(* ------------------------------ inputs -------------------------------- *)

\* Subject arguments: every enumerator, the first value past the enum, and
\* the largest word.
SubjectValues == 0..Len(SUBJECT_ENUMERATION) \cup { UINT64_MAX }

\* Durations: zero, small ones, and the largest word.
NsValues == { 0, 1, UINT64_MAX }

\* Subject arguments of the reads: the first two and the last enumerator,
\* the first value past the enum, and the largest word.
ReadSubjectValues ==
    { 0, 1, Len(SUBJECT_ENUMERATION) - 1, Len(SUBJECT_ENUMERATION), UINT64_MAX }

Threads == { 1, 2 }

\* Arguments of the threads' calls: two subjects to contend for and a value
\* past the enum.
ThreadSubjectValues ==
    { 0, Len(SUBJECT_ENUMERATION) - 1, Len(SUBJECT_ENUMERATION) }

(* ------------------------- sequential model --------------------------- *)

StInit == [n \in SubjectNames |-> [total |-> 0, count |-> 0]]

HistInit == [n \in SubjectNames |-> [sum |-> 0, num |-> 0]]

ThreadsIdle ==
    /\ pc = [t \in Threads |-> "idle"]
    /\ pending = [t \in Threads |-> << >>]
    /\ reg = [t \in Threads |-> 0]
    /\ tcalls = [t \in Threads |-> 0]

Init ==
    /\ st = StInit
    /\ hist = HistInit
    /\ arith \in { "wrapping", "saturating" }
    /\ ncalls = 0
    /\ last = [op |-> "none", subject |-> 0, ns |-> 0, ret |-> << >>]
    /\ invoked = << >>
    /\ reread = "no"
    /\ atomic = TRUE
    /\ ThreadsIdle

\* Whether a read repeats the call before it, and with which result.
Reread(op, subject, ret) ==
    IF last.op = op /\ last.subject = subject
    THEN IF ret = last.ret THEN "same" ELSE "differs"
    ELSE "no"

\* A caller calls RecordMeasurement(subject, ns).
CallRecordMeasurement ==
    \E subject \in SubjectValues, ns \in NsValues :
        LET flow == RecordMeasurement(subject, ns) IN
        /\ ncalls < MaxCalls
        /\ ncalls' = ncalls + 1
        /\ st' = RunCalls(st, flow.calls)
        /\ hist' = Requested(hist, subject, ns)
        /\ last' = [op |-> "RecordMeasurement", subject |-> subject,
                    ns |-> ns, ret |-> RunReturn(st, flow)]
        /\ invoked' = flow.calls
        /\ reread' = "no"
        /\ UNCHANGED << arith, thrVars >>

\* A caller calls GetAccumulatedMetricFor(subject).
CallGetAccumulatedMetricFor ==
    \E subject \in ReadSubjectValues :
        LET flow == GetAccumulatedMetricFor(subject) IN
        /\ st' = RunCalls(st, flow.calls)
        /\ last' = [op |-> "GetAccumulatedMetricFor", subject |-> subject,
                    ns |-> 0, ret |-> RunReturn(st, flow)]
        /\ invoked' = flow.calls
        /\ reread' = Reread("GetAccumulatedMetricFor", subject, RunReturn(st, flow))
        /\ UNCHANGED << hist, arith, ncalls, thrVars >>

\* A caller calls GetCounterFor(subject).
CallGetCounterFor ==
    \E subject \in ReadSubjectValues :
        LET flow == GetCounterFor(subject) IN
        /\ st' = RunCalls(st, flow.calls)
        /\ last' = [op |-> "GetCounterFor", subject |-> subject,
                    ns |-> 0, ret |-> RunReturn(st, flow)]
        /\ invoked' = flow.calls
        /\ reread' = Reread("GetCounterFor", subject, RunReturn(st, flow))
        /\ UNCHANGED << hist, arith, ncalls, thrVars >>

Next ==
    \/ CallRecordMeasurement
    \/ CallGetAccumulatedMetricFor
    \/ CallGetCounterFor

Spec == Init /\ [][Next]_vars

(* --------------------------- threaded model --------------------------- *)

InitThreads ==
    /\ st = StInit
    /\ hist = HistInit
    /\ arith \in { "wrapping", "saturating" }
    /\ ncalls = 0
    /\ last = [op |-> "none", subject |-> 0, ns |-> 0, ret |-> << >>]
    /\ invoked = << >>
    /\ reread = "no"
    /\ atomic \in BOOLEAN
    /\ ThreadsIdle

\* Thread t enters RecordMeasurement(subject, ns); the switch selects the
\* per-subject calls it will make.
ThreadCall(t) ==
    \E subject \in ThreadSubjectValues, ns \in NsValues :
        /\ pc[t] = "idle"
        /\ tcalls[t] < MaxThreadCalls
        /\ tcalls' = [tcalls EXCEPT ![t] = @ + 1]
        /\ pending' = [pending EXCEPT ![t] = RecordMeasurement(subject, ns).calls]
        /\ pc' = [pc EXCEPT ![t] = "total"]
        /\ hist' = Requested(hist, subject, ns)
        /\ UNCHANGED << st, arith, seqVars, atomic, reg >>

\* Thread t leaves RecordMeasurement: no per-subject call is left (break).
ThreadReturn(t) ==
    /\ pc[t] = "total"
    /\ pending[t] = << >>
    /\ pc' = [pc EXCEPT ![t] = "idle"]
    /\ UNCHANGED << st, arith, hist, seqVars, atomic, pending, reg, tcalls >>

\* An atomic recorder adds ns to the total in one step.
ThreadAtomicAddTotal(t) ==
    /\ atomic
    /\ pc[t] = "total"
    /\ pending[t] # << >>
    /\ LET c == Head(pending[t]) IN
       st' = [st EXCEPT ![c.subject].total = Add64(@, c.args[1])]
    /\ pc' = [pc EXCEPT ![t] = "count"]
    /\ UNCHANGED << arith, hist, seqVars, atomic, pending, reg, tcalls >>

\* An atomic recorder adds 1 to the counter in one step, and returns.
ThreadAtomicAddCount(t) ==
    /\ atomic
    /\ pc[t] = "count"
    /\ LET c == Head(pending[t]) IN
       st' = [st EXCEPT ![c.subject].count = Add64(@, 1)]
    /\ pending' = [pending EXCEPT ![t] = Tail(@)]
    /\ pc' = [pc EXCEPT ![t] = "total"]
    /\ UNCHANGED << arith, hist, seqVars, atomic, reg, tcalls >>

\* A plain recorder loads the total ...
ThreadLoadTotal(t) ==
    /\ ~atomic
    /\ pc[t] = "total"
    /\ pending[t] # << >>
    /\ reg' = [reg EXCEPT ![t] = st[Head(pending[t]).subject].total]
    /\ pc' = [pc EXCEPT ![t] = "storeTotal"]
    /\ UNCHANGED << st, arith, hist, seqVars, atomic, pending, tcalls >>

\* ... and stores it back with ns added.
ThreadStoreTotal(t) ==
    /\ pc[t] = "storeTotal"
    /\ LET c == Head(pending[t]) IN
       st' = [st EXCEPT ![c.subject].total = Add64(reg[t], c.args[1])]
    /\ pc' = [pc EXCEPT ![t] = "count"]
    /\ UNCHANGED << arith, hist, seqVars, atomic, pending, reg, tcalls >>

\* A plain recorder loads the counter ...
ThreadLoadCount(t) ==
    /\ ~atomic
    /\ pc[t] = "count"
    /\ reg' = [reg EXCEPT ![t] = st[Head(pending[t]).subject].count]
    /\ pc' = [pc EXCEPT ![t] = "storeCount"]
    /\ UNCHANGED << st, arith, hist, seqVars, atomic, pending, tcalls >>

\* ... and stores it back with 1 added, and returns.
ThreadStoreCount(t) ==
    /\ pc[t] = "storeCount"
    /\ LET c == Head(pending[t]) IN
       st' = [st EXCEPT ![c.subject].count = Add64(reg[t], 1)]
    /\ pending' = [pending EXCEPT ![t] = Tail(@)]
    /\ pc' = [pc EXCEPT ![t] = "total"]
    /\ UNCHANGED << arith, hist, seqVars, atomic, reg, tcalls >>

NextThreads ==
    \E t \in Threads :
        \/ ThreadCall(t)
        \/ ThreadReturn(t)
        \/ ThreadAtomicAddTotal(t)
        \/ ThreadAtomicAddCount(t)
        \/ ThreadLoadTotal(t)
        \/ ThreadStoreTotal(t)
        \/ ThreadLoadCount(t)
        \/ ThreadStoreCount(t)

SpecThreads == InitThreads /\ [][NextThreads]_vars

(* ------------------------------ claims -------------------------------- *)

ReadOps == { "GetAccumulatedMetricFor", "GetCounterFor" }

\* The last call was `op` on a subject of the registry.
LastOn(op) == last.op = op /\ last.subject \in RegistryOrdinals

\* A step that makes a call (any step but a stuttering one).
Called == vars' # vars

\* C1 as stated: after any sequence of records, GetAccumulatedMetricFor(s)
\* returns the exact sum v1 + ... + vk of the durations recorded for s and
\* GetCounterFor(s) returns their number k.
C1_ReadsExactSumAndCount ==
    /\ LastOn("GetAccumulatedMetricFor") =>
           last.ret = << hist[RegistryName(last.subject)].sum >>
    /\ LastOn("GetCounterFor") =>
           last.ret = << hist[RegistryName(last.subject)].num >>

\* C1 amended: GetAccumulatedMetricFor(s) returns the exact sum v1 + ... + vk
\* whenever that sum fits a word (is at most UINT64_MAX), and GetCounterFor(s)
\* returns k.
C1_ReadsSumThatFitsAndCount ==
    /\ (LastOn("GetAccumulatedMetricFor")
          /\ hist[RegistryName(last.subject)].sum <= UINT64_MAX) =>
           last.ret = << hist[RegistryName(last.subject)].sum >>
    /\ LastOn("GetCounterFor") =>
           last.ret = << hist[RegistryName(last.subject)].num >>

\* C1 witness: two durations were recorded for a subject and its sum read back.
C1_Witness ==
    /\ LastOn("GetAccumulatedMetricFor")
    /\ hist[RegistryName(last.subject)] = [sum |-> 2, num |-> 2]
    /\ last.ret = << 2 >>

\* C2: RecordMeasurement(A, ns) for a subject A of the registry leaves the
\* accumulated metric and the counter of every other subject unchanged.
C2_RecordLeavesOthers ==
    [][(ncalls' # ncalls /\ last'.subject \in RegistryOrdinals) =>
          \A n \in SubjectNames \ { RegistryName(last'.subject) } :
              /\ st'[n] = st[n]
              /\ GetAccumulatedMetricForSUBJECT(st', n)
                     = GetAccumulatedMetricForSUBJECT(st, n)
              /\ GetCounterForSUBJECT(st', n) = GetCounterForSUBJECT(st, n)]_vars

\* C2 witness: a record for one subject was made while a later subject of the
\* registry already held a recorded duration.
C2_Witness ==
    /\ LastOn("RecordMeasurement")
    /\ last.ns > 0
    /\ \E i \in 1..Len(SUBJECT_ENUMERATION) :
           /\ i > last.subject + 1
           /\ st[SUBJECT_ENUMERATION[i]] = [total |-> 1, count |-> 1]

\* C3: for a subject value outside the registry both readers return 0, and
\* RecordMeasurement invokes nothing and changes no subject's state.
C3_UnknownSubject ==
    [][(Called /\ last'.subject \notin RegistryOrdinals) =>
          /\ st' = st
          /\ invoked' = << >>
          /\ last'.op \in ReadOps => last'.ret = << 0 >>
          /\ last'.op = "RecordMeasurement" => last'.ret = << >>]_vars

\* C3 witness: a nonzero duration was recorded with the largest word as the
\* subject, after a real record.
C3_Witness ==
    /\ last.op = "RecordMeasurement"
    /\ last.subject = UINT64_MAX
    /\ last.ns > 0
    /\ \E n \in SubjectNames : st[n].count = 1

\* C4: both readers return 0 for a subject of the registry no duration was
\* ever recorded for, whatever was recorded for other subjects or with
\* unknown subject values.
C4_NeverRecordedReadsZero ==
    (last.op \in ReadOps /\ last.subject \in RegistryOrdinals
        /\ hist[RegistryName(last.subject)].num = 0) => last.ret = << 0 >>

\* C4 witness: the last subject of the registry is read after a record for
\* another subject and a record with an unknown subject value.
C4_Witness ==
    /\ LastOn("GetCounterFor")
    /\ last.subject = Len(SUBJECT_ENUMERATION) - 1
    /\ hist[RegistryName(last.subject)].num = 0
    /\ ncalls = 2
    /\ \E n \in SubjectNames :
           /\ hist[n] = [sum |-> 1, num |-> 1]
           /\ \A m \in SubjectNames \ { n } : hist[m].num = 0

\* C5: a read changes no subject's state, and a read that repeats the read
\* before it returns the same value.
C5_ReadsIdempotent ==
    [][(Called /\ last'.op \in ReadOps) =>
          /\ st' = st
          /\ hist' = hist
          /\ reread' # "differs"]_vars

\* C5 witness: the accumulated metric of a subject was read twice in a row,
\* and was not 0.
C5_Witness ==
    /\ LastOn("GetAccumulatedMetricFor")
    /\ reread = "same"
    /\ last.ret = << UINT64_MAX >>

\* C6: the registry holds 10 distinct names, whose enumerators are 0..9 in
\* registry order (Control = 0, TypedStoreSetValue = 9); the three dispatchers
\* forward a call exactly for these values, to the subject of that position.
C6_ClosedEnumeration ==
    /\ Len(SUBJECT_ENUMERATION) = 10
    /\ Cardinality(SubjectNames) = 10
    /\ \A i \in 1..Len(SUBJECT_ENUMERATION) :
           InternalImplicitsMeasurementSubject(SUBJECT_ENUMERATION[i]) = i - 1
    /\ InternalImplicitsMeasurementSubject("Control") = 0
    /\ InternalImplicitsMeasurementSubject("TypedStoreSetValue") = 9
    /\ CaseLabels = 0..9
    /\ \A v \in SubjectValues :
           \A f \in { RecordMeasurement(v, 1), GetAccumulatedMetricFor(v),
                      GetCounterFor(v) } :
               IF v \in 0..9
               THEN /\ Len(f.calls) = 1
                    /\ f.calls[1].subject = SUBJECT_ENUMERATION[v + 1]
               ELSE f.calls = << >>
    /\ last.op # "none" =>
           IF last.subject \in 0..9
           THEN /\ Len(invoked) = 1
                /\ invoked[1].subject = SUBJECT_ENUMERATION[last.subject + 1]
           ELSE invoked = << >>

\* C6 witness: the counter of value 9 was read, and the reader invoked was
\* TypedStoreSetValue's.
C6_Witness ==
    /\ last.op = "GetCounterFor"
    /\ last.subject = 9
    /\ invoked = << PerSubjectCall("GetCounterFor", "TypedStoreSetValue", << >>) >>

\* C7: RecordMeasurement(s, ns) invokes the recorder of s once, with ns, and
\* nothing else; GetAccumulatedMetricFor(s) and GetCounterFor(s) invoke the
\* matching reader of s once and return its value.
C7_ForwardsToOwnFunction ==
    /\ LastOn("RecordMeasurement") =>
           /\ invoked = << PerSubjectCall("RecordMeasurementFor",
                               RegistryName(last.subject), << last.ns >>) >>
           /\ last.ret = << >>
    /\ LastOn("GetAccumulatedMetricFor") =>
           /\ invoked = << PerSubjectCall("GetAccumulatedMetricFor",
                               RegistryName(last.subject), << >>) >>
           /\ last.ret = << GetAccumulatedMetricForSUBJECT(st,
                               RegistryName(last.subject)) >>
    /\ LastOn("GetCounterFor") =>
           /\ invoked = << PerSubjectCall("GetCounterFor",
                               RegistryName(last.subject), << >>) >>
           /\ last.ret = << GetCounterForSUBJECT(st,
                               RegistryName(last.subject)) >>

\* C7 witness: the largest duration was recorded for the first subject, the
\* case every other case follows.
C7_Witness ==
    /\ last.op = "RecordMeasurement"
    /\ last.subject = 0
    /\ last.ns = UINT64_MAX
    /\ Len(invoked) = 1

\* C8: no call resets or decreases a subject's state: a counter changes only
\* by a record for its own subject, which adds exactly 1 to it, and, as long
\* as the exact sum fits a word, an accumulated metric never decreases.
C8_NeverDecreases ==
    [][\A n \in SubjectNames :
          /\ st'[n].count >= st[n].count
          /\ st'[n].count = st[n].count + (hist'[n].num - hist[n].num)
          /\ hist'[n].num - hist[n].num \in { 0, 1 }
          /\ hist'[n].sum <= UINT64_MAX => st'[n].total >= st[n].total]_vars

\* C8 witness: a subject was recorded twice, growing both its words.
C8_Witness ==
    \E n \in SubjectNames :
        /\ st[n].count = 2
        /\ st[n].total = 2
        /\ hist[n].sum = 2

\* C9: a record completes whatever the duration: when the exact sum exceeds
\* UINT64_MAX the accumulated metric is still a word (the sum modulo 2^64
\* under wrapping, UINT64_MAX under saturating arithmetic) and the counter
\* has still grown by 1.
C9_OverflowStaysAWord ==
    \A n \in SubjectNames :
        /\ st[n].total \in 0..UINT64_MAX
        /\ st[n].total = IF arith = "wrapping" THEN hist[n].sum % Modulus
                         ELSE Min(hist[n].sum, UINT64_MAX)
        /\ st[n].count = hist[n].num

\* C9 witness: the largest duration was recorded twice for one subject under
\* wrapping arithmetic.
C9_Witness ==
    /\ arith = "wrapping"
    /\ \E n \in SubjectNames :
           /\ hist[n] = [sum |-> 2 * UINT64_MAX, num |-> 2]
           /\ st[n] = [total |-> UINT64_MAX - 1, count |-> 2]

Quiescent == \A t \in Threads : pc[t] = "idle"

\* C10: with an atomic per-subject recorder, once every thread has returned
\* each subject's words are the folded sum and the number of the records made
\* for it, under every interleaving.
C10_AtomicRecorderExact ==
    (atomic /\ Quiescent) =>
        \A n \in SubjectNames :
            /\ st[n].total = Folded(hist[n].sum)
            /\ st[n].count = hist[n].num

\* C10 witness: with a plain read-modify-write recorder two threads have
\* returned from a record for the same subject and an update is lost.
C10_Witness ==
    /\ ~atomic
    /\ Quiescent
    /\ \E n \in SubjectNames :
           /\ hist[n] = [sum |-> 2, num |-> 2]
           /\ \/ st[n].count < hist[n].num
              \/ st[n].total < hist[n].sum

=============================================================================
